---- MODULE Spec2Model ----
(***************************************************************************)
(* A model of metafeatures/dataset_describe.py: the class Dataset, which   *)
(* wraps a pandas DataFrame, resolves the dependent column, the            *)
(* categorical columns and the prediction type, builds an encoded copy     *)
(* of the frame and exposes one-value-per-dataset accessors, three groups  *)
(* of which memoize an intermediate structure.                             *)
(*                                                                         *)
(* Representation.                                                         *)
(*   - A column name is a Python string, modelled as the sequence of its   *)
(*     characters: "ab" is <<"a", "b">>.  The one-character string "a" is  *)
(*     <<"a">>, so set("ab") is {<<"a">>, <<"b">>}.                        *)
(*   - A DataFrame is the sequence of its columns in declared order, each  *)
(*     a record [name, numeric, vals]: numeric says whether pandas counts  *)
(*     the column as numeric (_get_numeric_data keeps it), vals has one    *)
(*     cell per row.  A cell is a small natural number or NaN (missing).   *)
(*     In an object column the number v stands for the label whose text    *)
(*     is the digit v, so labels sort as the numbers do.                   *)
(*   - None is modelled by a value of the argument's type that no real     *)
(*     argument takes: the empty name, the string "None", and the list     *)
(*     holding the empty name.                                             *)
(*   - Floating point results are exact rationals [num, den] where the     *)
(*     code computes a quotient, and hundredths (truncated) where it       *)
(*     takes a square root.                                                *)
(*   - Library behaviour is that of pandas/numpy/scikit-learn as the code  *)
(*     was written for (Python 2, numpy before 1.21, DataFrame.corr over   *)
(*     numeric columns only).  There LabelEncoder orders the None of an    *)
(*     object column before every label, as one class, and the NaNs of a   *)
(*     float column after every number, each NaN a class of its own.       *)
(***************************************************************************)
EXTENDS Integers, Sequences, FiniteSets, TLC

\* Number of rows of every dataset drawn as an input.
NRows == 3

\* Largest cell value; cells are 0..MaxVal or NaN.  With NRows rows a
\* column has at most NRows distinct values.
MaxVal == NRows - 1

\* np.nan as a cell.
NaN == 0 - 1

\* None passed for (or left as the default of) a column-name argument.
None == << >>

\* None passed for prediction_type.
NoneStr == "None"

\* None passed for categorical_cols.
NoneList == << None >>

\* Column names the drawn datasets use, and a name no dataset has.
Names == { <<"a">>, <<"a", "b">> }
Absent == <<"z">>

Cells == (0..MaxVal) \cup {NaN}

\* The cell vectors of the drawn columns: one representative for every
\* number of distinct values and every number of missing cells, namely the
\* vector that is ascending, with the missing cells in the last rows, uses
\* the values 0, 1, ... without a gap and repeats only its largest value.
Patterns ==
    { v \in [1..NRows -> Cells] :
        /\ \A i \in 1..(NRows - 1) :
                v[i] = NaN => v[i + 1] = NaN
        /\ \A i \in 1..(NRows - 1) :
                v[i + 1] # NaN => v[i] <= v[i + 1]
        /\ \A i \in 1..NRows :
                v[i] > 0 => \E j \in 1..NRows : v[j] = v[i] - 1
        /\ \A i \in 1..(NRows - 1), j \in 1..NRows :
                (v[i] # NaN /\ v[i] = v[i + 1] /\ j > i) => v[j] \in {v[i], NaN} }

Column == [name : Names, numeric : BOOLEAN, vals : Patterns]

Range(s) == { s[i] : i \in DOMAIN s }

\* ---------------------------------------------------------------------
\* pandas / numpy / scikit-learn primitives the class calls

\* df.columns.tolist()
columns(d) == [i \in DOMAIN d |-> d[i].name]

\* df._get_numeric_data()
_get_numeric_data(d) == SelectSeq(d, LAMBDA c : c.numeric)

\* df[col], defined when col is a column of d
getitem(d, col) == d[CHOOSE i \in DOMAIN d : d[i].name = col]

\* set(s) for a string s: its characters, each a one-character string
set_of_str(s) == { << s[i] >> : i \in DOMAIN s }

\* Series.unique(): the distinct cells, NaN counted as one of them
unique(vals) == Range(vals)

\* Series.dropna().unique()
dropna_unique(vals) == Range(vals) \ {NaN}

\* the ascending sequence of a finite set of integers
RECURSIVE sorted(_)
sorted(S) ==
    IF S = {} THEN << >>
    ELSE LET m == CHOOSE x \in S : \A y \in S : x <= y
         IN  << m >> \o sorted(S \ {m})

\* LabelEncoder().fit_transform(series): each cell becomes the index of its
\* class in np.unique(series).  In an object column the classes are None,
\* when a cell is missing, and then the labels in ascending order.  In a
\* numeric column they are the numbers in ascending order and then one
\* class for every missing cell, since no NaN equals another.
fit_transform(c) ==
    LET vals    == c.vals
        missing == { i \in DOMAIN vals : vals[i] = NaN }
        rank(v) == Cardinality({ u \in dropna_unique(vals) : u < v })
    IN  [i \in DOMAIN vals |->
            IF c.numeric
            THEN IF vals[i] = NaN
                 THEN Cardinality(dropna_unique(vals))
                        + Cardinality({ j \in missing : j < i })
                 ELSE rank(vals[i])
            ELSE IF vals[i] = NaN
                 THEN 0
                 ELSE rank(vals[i]) + (IF missing = {} THEN 0 ELSE 1)]

\* str(v) as get_dummies writes it into a column name: a numeric column
\* with a missing value is a float column, whose values print as "v.0"
Digits == << "0", "1", "2", "3", "4", "5", "6", "7", "8", "9" >>
str(c, v) ==
    IF c.numeric /\ NaN \in Range(c.vals)
    THEN << Digits[v + 1], ".", "0" >>
    ELSE << Digits[v + 1] >>

\* pd.get_dummies(d, columns=[col]): the column is dropped and one
\* indicator column per distinct non-missing value, in ascending order of
\* the value, is appended (dummy_na is False)
get_dummies(d, col) ==
    LET c    == getitem(d, col)
        rest == SelectSeq(d, LAMBDA x : x.name # col)
        cats == sorted(dropna_unique(c.vals))
    IN  rest \o [k \in DOMAIN cats |->
                    [name    |-> c.name \o <<"_">> \o str(c, cats[k]),
                     numeric |-> TRUE,
                     vals    |-> [i \in DOMAIN c.vals |->
                                    IF c.vals[i] = cats[k] THEN 1 ELSE 0]]]

\* ---------------------------------------------------------------------
\* State: the fields of the one live Dataset instance, the class-level
\* dictionary every instance shares, and the last call with its outcome

VARIABLES alive, df, df_encoded, categorical_cols, dependent_col,
          prediction_type, independent_col, corr_with_dependent,
          class_probablities, symbol_counts_dict, call

vars == << alive, df, df_encoded, categorical_cols, dependent_col,
           prediction_type, independent_col, corr_with_dependent,
           class_probablities, symbol_counts_dict, call >>

fields == << df, df_encoded, categorical_cols, dependent_col,
             prediction_type, independent_col >>

\* Outcomes of a call
Value(n, d) == [kind |-> "value", exc |-> "", num |-> n, den |-> d]
nan         == [kind |-> "nan", exc |-> "", num |-> 0, den |-> 1]
Raise(e)    == [kind |-> "raise", exc |-> e, num |-> 0, den |-> 1]
Returned    == [kind |-> "none", exc |-> "", num |-> 0, den |-> 1]

\* A memoized attribute: None, or the structure computed on first use
Unset  == [isNone |-> TRUE, map |-> << >>]
Set(m) == [isNone |-> FALSE, map |-> m]

NoArgs == [df |-> << >>, prediction_type |-> NoneStr,
           dependent_col |-> None, categorical_cols |-> NoneList]

\* ---------------------------------------------------------------------
\* Construction

\* the resolution with the first column as the default
_set_dependent_col_first(d, dep) ==
    IF dep = None
    THEN [exc |-> "", dependent_col |-> columns(d)[1]]
    ELSE IF dep \in Range(columns(d))
         THEN [exc |-> "", dependent_col |-> dep]
         ELSE [exc |-> "ValueError", dependent_col |-> None]

\* Dataset._set_dependent_col
_set_dependent_col(d, dep) ==
    IF dep = None
    THEN [exc |-> "", dependent_col |-> columns(d)[Len(d)]]
    ELSE IF dep \in Range(columns(d))
         THEN [exc |-> "", dependent_col |-> dep]
         ELSE [exc |-> "ValueError", dependent_col |-> None]

\* the resolution with the supplied type checked against the column
_set_prediction_type_checked(d, dep, pt) ==
    IF dep \in Range(columns(_get_numeric_data(d)))
    THEN "regression"
    ELSE "classification"

\* Dataset._set_prediction_type
_set_prediction_type(d, dep, pt) ==
    IF pt = NoneStr
    THEN IF dep \in Range(columns(_get_numeric_data(d)))
         THEN "regression"
         ELSE "classification"
    ELSE pt

\* list(s) for a set s: its elements in an order the language does not
\* define (it depends on the interpreter and on the hash seed)
list_of_set(S) ==
    { s \in [1..Cardinality(S) -> S] : Range(s) = S }

\* Dataset._set_categorical_columns: the lists the method can store.  A
\* supplied list is stored as it is; the inferred one is list(set(...)),
\* which can come out in any order.
_set_categorical_columns(d, dep, cats) ==
    IF cats = NoneList
    THEN list_of_set((Range(columns(d)) \ Range(columns(_get_numeric_data(d))))
                        \ {dep})
    ELSE { cats }

\* the body of the loop of Dataset._categorical_column_encoder for one col
encode_one(enc, col) ==
    IF Cardinality(unique(getitem(enc, col).vals)) <= 2
    THEN [i \in DOMAIN enc |->
            IF enc[i].name = col
            THEN [name    |-> col,
                  numeric |-> TRUE,
                  vals    |-> fit_transform(enc[i])]
            ELSE enc[i]]
    ELSE get_dummies(enc, col)

\* the loop of Dataset._categorical_column_encoder from the i-th name on,
\* working on the copy enc; a name that is not a column raises KeyError
RECURSIVE encode_from(_, _, _)
encode_from(enc, cats, i) ==
    IF i > Len(cats)
    THEN [exc |-> "", df_encoded |-> enc]
    ELSE IF cats[i] \notin Range(columns(enc))
         THEN [exc |-> "KeyError", df_encoded |-> enc]
         ELSE encode_from(encode_one(enc, cats[i]), cats, i + 1)

\* the encoder with every name that is not a column skipped
_categorical_column_encoder_lenient(d, cats) ==
    LET r == encode_from(d, SelectSeq(cats, LAMBDA n : n \in Range(columns(d))), 1)
    IN  [exc |-> r.exc, df |-> d, df_encoded |-> r.df_encoded]

\* the encoder without the copy: until get_dummies rebinds df_encoded to a
\* new frame, the label encoding is written into self.df
_categorical_column_encoder_nocopy(d, cats) ==
    LET r == encode_from(d, cats, 1)
    IN  [exc |-> r.exc,
         df |-> IF columns(r.df_encoded) = columns(d) THEN r.df_encoded ELSE d,
         df_encoded |-> r.df_encoded]

\* Dataset._categorical_column_encoder: self.df_encoded = self.df.copy(),
\* then the loop, which writes the copy only.  df is self.df, the caller's
\* frame, as the method leaves it.
_categorical_column_encoder(d, cats) ==
    LET r == encode_from(d, cats, 1)
    IN  [exc |-> r.exc, df |-> d, df_encoded |-> r.df_encoded]

\* list(set(self.df.columns.tolist()) - set(self.dependent_col))
independent_of(d, dep) == Range(columns(d)) \ set_of_str(dep)

\* Dataset.__init__: either every field is set and the instance exists, or
\* the exception leaves the caller without an instance
Construct(d, pt, dep, cats) ==
    LET args == [df |-> d, prediction_type |-> pt,
                 dependent_col |-> dep, categorical_cols |-> cats]
        r1   == _set_dependent_col(d, dep)
    IN  /\ ~alive
        /\ symbol_counts_dict' = symbol_counts_dict
        /\ corr_with_dependent' = Unset
        /\ class_probablities' = Unset
        /\ IF r1.exc # ""
           THEN /\ alive' = FALSE
                /\ UNCHANGED fields
                /\ call' = [op |-> "__init__", args |-> args, ret |-> Raise(r1.exc)]
           ELSE \E cc \in _set_categorical_columns(d, r1.dependent_col, cats) :
                LET p  == _set_prediction_type(d, r1.dependent_col, pt)
                    r2 == _categorical_column_encoder(d, cc)
                IN  IF r2.exc # ""
                    THEN /\ alive' = FALSE
                         /\ UNCHANGED fields
                         /\ call' = [op |-> "__init__", args |-> args,
                                     ret |-> Raise(r2.exc)]
                    ELSE /\ alive' = TRUE
                         /\ df' = r2.df
                         /\ dependent_col' = r1.dependent_col
                         /\ categorical_cols' = cc
                         /\ prediction_type' = p
                         /\ independent_col' = independent_of(d, r1.dependent_col)
                         /\ df_encoded' = r2.df_encoded
                         /\ call' = [op |-> "__init__", args |-> args,
                                     ret |-> Returned]

\* The caller drops its reference; the class attribute stays
Drop ==
    /\ alive \/ call.op = "__init__"
    /\ alive' = FALSE
    /\ df' = << >>
    /\ df_encoded' = << >>
    /\ categorical_cols' = << >>
    /\ dependent_col' = None
    /\ prediction_type' = NoneStr
    /\ independent_col' = {}
    /\ corr_with_dependent' = Unset
    /\ class_probablities' = Unset
    /\ symbol_counts_dict' = symbol_counts_dict
    /\ call' = [op |-> "del", args |-> NoArgs, ret |-> Returned]

\* ---------------------------------------------------------------------
\* Arithmetic of the reductions

RECURSIVE seq_sum(_)
seq_sum(s) == IF s = << >> THEN 0 ELSE Head(s) + seq_sum(Tail(s))

seq_sumsq(s) == seq_sum([i \in DOMAIN s |-> s[i] * s[i]])

seq_min(s) == CHOOSE x \in Range(s) : \A y \in Range(s) : x <= y
seq_max(s) == CHOOSE x \in Range(s) : \A y \in Range(s) : x >= y

\* the values of s in ascending order, repetitions kept
RECURSIVE seq_sorted(_)
seq_sorted(s) ==
    IF s = << >> THEN << >>
    ELSE LET i == CHOOSE j \in DOMAIN s : \A k \in DOMAIN s : s[j] <= s[k]
         IN  << s[i] >> \o seq_sorted(SubSeq(s, 1, i - 1) \o SubSeq(s, i + 1, Len(s)))

\* floor of the square root
isqrt(x) == CHOOSE r \in 0..(x + 1) : r * r <= x /\ (r + 1) * (r + 1) > x

\* A reduction over values that all have the denominator den.  The result
\* is nan where pandas/numpy give nan: no value at all, or fewer than two
\* for a sample standard deviation (ddof = 1).
reduce_min(s, den) == IF s = << >> THEN nan ELSE Value(seq_min(s), den)
reduce_max(s, den) == IF s = << >> THEN nan ELSE Value(seq_max(s), den)
reduce_sum(s, den) == Value(seq_sum(s), den)
reduce_mean(s, den) ==
    IF s = << >> THEN nan ELSE Value(seq_sum(s), den * Len(s))
reduce_median(s, den) ==
    IF s = << >> THEN nan
    ELSE LET t == seq_sorted(s)
             k == Len(s)
         IN  IF k % 2 = 1
             THEN Value(t[(k + 1) \div 2], den)
             ELSE Value(t[k \div 2] + t[k \div 2 + 1], 2 * den)
\* sqrt((k*sum(x^2) - sum(x)^2) / (k*(k-1))) / den, in hundredths
reduce_std(s, den) ==
    IF Len(s) < 2 THEN nan
    ELSE LET k == Len(s)
             v == (k * seq_sumsq(s) - seq_sum(s) * seq_sum(s)) * 10000
         IN  Value(isqrt(v \div (k * (k - 1) * den * den)), 100)
\* np.nanpercentile(s, q), linear interpolation between the two nearest
\* ranks: position (k-1)*q/100 = (k-1)*quarters/4
reduce_percentile(s, den, quarters) ==
    IF s = << >> THEN nan
    ELSE LET t   == seq_sorted(s)
             pos == (Len(s) - 1) * quarters
             lo  == pos \div 4 + 1
             r   == pos % 4
         IN  IF r = 0
             THEN Value(4 * t[lo], 4 * den)
             ELSE Value(4 * t[lo] + r * (t[lo + 1] - t[lo]), 4 * den)

reduce(stat, s, den) ==
    CASE stat = "min"    -> reduce_min(s, den)
      [] stat = "max"    -> reduce_max(s, den)
      [] stat = "sum"    -> reduce_sum(s, den)
      [] stat = "mean"   -> reduce_mean(s, den)
      [] stat = "median" -> reduce_median(s, den)
      [] stat = "std"    -> reduce_std(s, den)
      [] stat = "25p"    -> reduce_percentile(s, den, 1)
      [] stat = "75p"    -> reduce_percentile(s, den, 3)

\* ---------------------------------------------------------------------
\* Dimensional accessors

Accessor(op, ret) ==
    /\ alive
    /\ call' = [op |-> op, args |-> NoArgs, ret |-> ret]
    /\ UNCHANGED << alive, fields >>

\* Dataset.n_rows
n_rows_of(d) == Len(d[1].vals)
n_rows ==
    /\ Accessor("n_rows", Value(n_rows_of(df), 1))
    /\ UNCHANGED << corr_with_dependent, class_probablities, symbol_counts_dict >>

\* Dataset.n_columns
n_columns ==
    /\ Accessor("n_columns", Value(Len(df), 1))
    /\ UNCHANGED << corr_with_dependent, class_probablities, symbol_counts_dict >>

\* Dataset.n_classes
n_classes ==
    /\ Accessor("n_classes",
                IF prediction_type = "classification"
                THEN Value(Cardinality(unique(getitem(df, dependent_col).vals)), 1)
                ELSE nan)
    /\ UNCHANGED << corr_with_dependent, class_probablities, symbol_counts_dict >>

\* ---------------------------------------------------------------------
\* Correlation with the dependent column

\* Pearson correlation of two columns over the rows where neither is
\* missing, as the pair (num, den2) standing for num / sqrt(den2); den2 = 0
\* is pandas' NaN (fewer than two rows, or a constant column)
pearson(x, y) ==
    LET rows == { i \in DOMAIN x : x[i] # NaN /\ y[i] # NaN }
        idx  == sorted(rows)
        xs   == [k \in DOMAIN idx |-> x[idx[k]]]
        ys   == [k \in DOMAIN idx |-> y[idx[k]]]
        n    == Len(idx)
        sxy  == seq_sum([k \in DOMAIN idx |-> xs[k] * ys[k]])
    IN  [num  |-> n * sxy - seq_sum(xs) * seq_sum(ys),
         den2 |-> (n * seq_sumsq(xs) - seq_sum(xs) * seq_sum(xs))
                  * (n * seq_sumsq(ys) - seq_sum(ys) * seq_sum(ys))]

\* self.df_encoded.corr()[self.dependent_col] without the entry of the
\* dependent column itself: corr() keeps the numeric columns only, and
\* indexing it by a column it does not have raises KeyError
corr_series(enc, dep) ==
    LET num == _get_numeric_data(enc)
    IN  IF dep \notin Range(columns(num))
        THEN [exc |-> "KeyError", map |-> << >>]
        ELSE LET others == SelectSeq(num, LAMBDA c : c.name # dep)
                 y      == getitem(num, dep).vals
             IN  [exc |-> "",
                  map |-> [i \in DOMAIN others |->
                             [name |-> others[i].name,
                              r    |-> pearson(others[i].vals, y)]]]

\* Dataset._get_corr_with_dependent.  self.corr_with_dependent != None on a
\* cached Series is an element-wise comparison, and the truth value of its
\* result is an error (ValueError) whatever the Series holds.  For a
\* prediction type other than 'regression' the method returns None.
_get_corr_with_dependent ==
    IF prediction_type = "regression"
    THEN IF ~corr_with_dependent.isNone
         THEN [exc |-> "ValueError", cache |-> corr_with_dependent, isNone |-> TRUE]
         ELSE LET c == corr_series(df_encoded, dependent_col)
              IN  IF c.exc # ""
                  THEN [exc |-> c.exc, cache |-> corr_with_dependent, isNone |-> TRUE]
                  ELSE [exc |-> "", cache |-> Set(c.map), isNone |-> FALSE]
    ELSE [exc |-> "", cache |-> corr_with_dependent, isNone |-> TRUE]

\* series.abs() without its NaN entries, in hundredths
abs_values(map) ==
    LET known == SelectSeq(map, LAMBDA e : e.r.den2 # 0)
    IN  [i \in DOMAIN known |->
            isqrt((known[i].r.num * known[i].r.num * 10000) \div known[i].r.den2)]

\* the accessor without its test of the prediction type
corr_with_dependent_abs_unguarded(stat) ==
    LET g == _get_corr_with_dependent
    IN  /\ Accessor("corr_with_dependent_abs_" \o stat,
                    IF g.exc # "" THEN Raise(g.exc)
                    ELSE IF g.isNone THEN Raise("AttributeError")
                    ELSE reduce(stat, abs_values(g.cache.map), 100))
        /\ corr_with_dependent' = g.cache
        /\ UNCHANGED << class_probablities, symbol_counts_dict >>

\* Dataset.corr_with_dependent_abs_<stat>
corr_with_dependent_abs(stat) ==
    LET op == "corr_with_dependent_abs_" \o stat
    IN  IF prediction_type = "classification"
        THEN /\ Accessor(op, nan)
             /\ UNCHANGED << corr_with_dependent, class_probablities,
                             symbol_counts_dict >>
        ELSE LET g == _get_corr_with_dependent
             IN  /\ Accessor(op,
                        IF g.exc # "" THEN Raise(g.exc)
                        ELSE IF g.isNone THEN Raise("AttributeError")
                        ELSE reduce(stat, abs_values(g.cache.map), 100))
                 /\ corr_with_dependent' = g.cache
                 /\ UNCHANGED << class_probablities, symbol_counts_dict >>

corr_with_dependent_abs_max == corr_with_dependent_abs("max")
corr_with_dependent_abs_min == corr_with_dependent_abs("min")
corr_with_dependent_abs_mean == corr_with_dependent_abs("mean")
corr_with_dependent_abs_median == corr_with_dependent_abs("median")
corr_with_dependent_abs_std == corr_with_dependent_abs("std")
corr_with_dependent_abs_25p == corr_with_dependent_abs("25p")
corr_with_dependent_abs_75p == corr_with_dependent_abs("75p")

\* ---------------------------------------------------------------------
\* Class probabilities

\* Series.value_counts(): the orders the result can have.  It has one
\* entry per distinct non-missing value (dropna is True), most frequent
\* first; the order among values of equal count is not defined (it depends
\* on the pandas version and its hash table).
value_counts(vals) ==
    LET cnt(v) == Cardinality({ i \in DOMAIN vals : vals[i] = v })
    IN  { [i \in DOMAIN s |-> [value |-> s[i], count |-> cnt(s[i])]] :
            s \in { t \in list_of_set(dropna_unique(vals)) :
                        \A i \in 1..(Len(t) - 1) : cnt(t[i]) >= cnt(t[i + 1]) } }

\* class_counts / self.n_rows(), for every order of class_counts
class_probabilities_of(d, dep) ==
    { [i \in DOMAIN counts |->
            [value |-> counts[i].value,
             num   |-> counts[i].count,
             den   |-> n_rows_of(d)]] :
        counts \in value_counts(getitem(d, dep).vals) }

\* Dataset._get_class_probablity: the values self.class_probablities can
\* have when the method returns
_get_class_probablity ==
    IF class_probablities.isNone
    THEN { Set(m) : m \in class_probabilities_of(df, dependent_col) }
    ELSE { class_probablities }

\* Dataset.class_prob_<stat>
class_prob(stat) ==
    LET op == "class_prob_" \o stat
    IN  /\ alive
        /\ IF prediction_type = "regression"
           THEN /\ Accessor(op, nan)
                /\ UNCHANGED << corr_with_dependent, class_probablities,
                                symbol_counts_dict >>
           ELSE \E p \in _get_class_probablity :
                    /\ Accessor(op,
                           reduce(stat, [i \in DOMAIN p.map |-> p.map[i].num],
                                  n_rows_of(df)))
                    /\ class_probablities' = p
                    /\ UNCHANGED << corr_with_dependent, symbol_counts_dict >>

class_prob_min == class_prob("min")
class_prob_max == class_prob("max")
class_prob_std == class_prob("std")
class_prob_mean == class_prob("mean")
class_prob_median == class_prob("median")

\* ---------------------------------------------------------------------
\* Symbols per categorical column

\* the loop of Dataset._get_symbols_per_category from the i-th name on,
\* writing into the dictionary dict; self.df[column] raises KeyError for a
\* name that is not a column, and what was written before stays written
RECURSIVE count_symbols(_, _, _, _)
count_symbols(dict, d, cats, i) ==
    IF i > Len(cats) THEN [exc |-> "", dict |-> dict]
    ELSE IF cats[i] \notin Range(columns(d))
         THEN [exc |-> "KeyError", dict |-> dict]
         ELSE LET n == Cardinality(dropna_unique(getitem(d, cats[i]).vals))
              IN  count_symbols([c \in DOMAIN dict \cup {cats[i]} |->
                                    IF c = cats[i] THEN n ELSE dict[c]],
                                d, cats, i + 1)

\* Dataset._get_symbols_per_category.  symbol_counts_dict is an attribute
\* of the class: an instance never assigns it, it only stores into it.
_get_symbols_per_category ==
    IF DOMAIN symbol_counts_dict = {}
    THEN count_symbols(symbol_counts_dict, df, categorical_cols, 1)
    ELSE [exc |-> "", dict |-> symbol_counts_dict]

\* dict.values()
values(dict) ==
    LET keys == CHOOSE s \in [1..Cardinality(DOMAIN dict) -> DOMAIN dict] :
                    Range(s) = DOMAIN dict
    IN  [i \in DOMAIN keys |-> dict[keys[i]]]

\* Dataset.symbols_<stat>
symbols(stat) ==
    LET r == _get_symbols_per_category
    IN  /\ Accessor("symbols_" \o stat,
                    IF r.exc # "" THEN Raise(r.exc)
                    ELSE IF DOMAIN r.dict = {} THEN nan
                    ELSE reduce(stat, values(r.dict), 1))
        /\ symbol_counts_dict' = r.dict
        /\ UNCHANGED << corr_with_dependent, class_probablities >>

symbols_mean == symbols("mean")
symbols_std == symbols("std")
symbols_min == symbols("min")
symbols_max == symbols("max")
symbols_sum == symbols("sum")

\* ---------------------------------------------------------------------
\* Inputs

\* the column of two values, the first in one row only
Binary == [i \in 1..NRows |-> IF i = 1 THEN 0 ELSE 1]

\* every dataset of one column; the datasets of the two columns "a" and
\* "ab", in this order, in which the two columns hold the same cells or one
\* of them holds two values; and the datasets of the three columns
\* "a", "ab" and "b" that hold the same cells; each column numeric or not
Datasets ==
    { << c >> : c \in Column } \cup
    { << c[1], c[2] >> :
        c \in { x \in Column \X Column :
                    /\ x[1].name = <<"a">> /\ x[2].name = <<"a", "b">>
                    /\ \/ x[1].vals = x[2].vals
                       \/ x[1].vals = Binary
                       \/ x[2].vals = Binary } } \cup
    { << [name |-> <<"a">>, numeric |-> n[1], vals |-> v],
         [name |-> <<"a", "b">>, numeric |-> n[2], vals |-> v],
         [name |-> <<"b">>, numeric |-> n[3], vals |-> v] >> :
        n \in BOOLEAN \X BOOLEAN \X BOOLEAN, v \in Patterns }

DepArgs == { None, <<"a">>, Absent }
TypeArgs == { NoneStr, "regression", "classification" }
\* no list, ['a'], ['z'], ['a', 'a_0'], ['a', 'a'] and ['a', 'z']
CatArgs == { NoneList, << <<"a">> >>, << Absent >>,
             << <<"a">>, <<"a", "_", "0">> >>,
             << <<"a">>, <<"a">> >>,
             << <<"a">>, Absent >> }

Init ==
    /\ alive = FALSE
    /\ df = << >>
    /\ df_encoded = << >>
    /\ categorical_cols = << >>
    /\ dependent_col = None
    /\ prediction_type = NoneStr
    /\ independent_col = {}
    /\ corr_with_dependent = Unset
    /\ class_probablities = Unset
    /\ symbol_counts_dict = << >>
    /\ call = [op |-> "start", args |-> NoArgs, ret |-> Returned]

New ==
    /\ ~alive
    /\ call.op # "__init__"
    /\ \E d \in Datasets, pt \in TypeArgs, dep \in DepArgs, cats \in CatArgs :
            Construct(d, pt, dep, cats)

Next ==
    \/ New
    \/ n_rows
    \/ n_columns
    \/ n_classes
    \/ corr_with_dependent_abs_max
    \/ corr_with_dependent_abs_min
    \/ corr_with_dependent_abs_mean
    \/ corr_with_dependent_abs_median
    \/ corr_with_dependent_abs_std
    \/ corr_with_dependent_abs_25p
    \/ corr_with_dependent_abs_75p
    \/ class_prob_min
    \/ class_prob_max
    \/ class_prob_std
    \/ class_prob_mean
    \/ class_prob_median
    \/ symbols_mean
    \/ symbols_std
    \/ symbols_min
    \/ symbols_max
    \/ symbols_sum

\* One instance and any sequence of accessor calls on it
Spec == Init /\ [][Next]_vars

NextShared ==
    \/ New
    \/ Drop
    \/ symbols_mean
    \/ symbols_std
    \/ symbols_min
    \/ symbols_max
    \/ symbols_sum

\* Any sequence of constructions and symbols_* calls, one instance after
\* the other
SpecShared == Init /\ [][NextShared]_vars

\* ---------------------------------------------------------------------
\* Properties

CorrOps == { "corr_with_dependent_abs_" \o st :
                st \in { "max", "min", "mean", "median", "std", "25p", "75p" } }
ClassProbOps == { "class_prob_" \o st :
                    st \in { "min", "max", "std", "mean", "median" } }
SymbolOps == { "symbols_" \o st : st \in { "mean", "std", "min", "max", "sum" } }

Constructed == call.op = "__init__" /\ call.ret = Returned
DependentGiven == call.args.dependent_col # None
DependentKnown == call.args.dependent_col \in Range(columns(call.args.df))
CategoricalGiven == call.args.categorical_cols # NoneList

has_prefix(name, pre) ==
    Len(name) > Len(pre) /\ SubSeq(name, 1, Len(pre)) = pre

\* the supplied list names columns of the dataset, none of them twice, and
\* no column of the dataset has the name of an indicator column of a listed
\* one
CategoricalDistinctColumns ==
    LET cats == call.args.categorical_cols
        cols == Range(columns(call.args.df))
    IN  /\ \A i \in DOMAIN cats : cats[i] \in cols
        /\ \A i, j \in DOMAIN cats : cats[i] = cats[j] => i = j
        /\ \A i \in DOMAIN cats, n \in cols : ~has_prefix(n, cats[i] \o <<"_">>)

\* the supplied list holds a name that is neither a column of the dataset
\* nor the name of an indicator column (column, "_", value) of a column of
\* the dataset listed before it
CategoricalForeign ==
    LET cats == call.args.categorical_cols
        cols == Range(columns(call.args.df))
    IN  \E i \in DOMAIN cats :
            /\ cats[i] \notin cols
            /\ \A j \in 1..(i - 1) :
                    cats[j] \in cols => ~has_prefix(cats[i], cats[j] \o <<"_">>)

\* C1: construction resolves the dependent column to the last column in
\* declared order when none is supplied and to the supplied name when it is
\* a column; a supplied name that is not a column makes construction fail
\* with ValueError and no instance exists.
C1_DependentResolution ==
    call.op = "__init__" =>
        /\ (Constructed /\ ~DependentGiven) =>
                dependent_col = call.args.df[Len(call.args.df)].name
        /\ (Constructed /\ DependentGiven) =>
                dependent_col = call.args.dependent_col
        /\ (DependentGiven /\ ~DependentKnown) =>
                ~alive /\ call.ret = Raise("ValueError")

C1_Witness ==
    /\ call.op = "__init__"
    /\ call.args.dependent_col = Absent
    /\ Len(call.args.df) = 2
    /\ call.ret = Raise("ValueError")
    /\ ~alive

\* C2: with no prediction type supplied the resolved type is 'regression'
\* when the resolved dependent column is numeric and 'classification'
\* otherwise; a supplied type is taken as it is.
C2_PredictionType ==
    Constructed =>
        IF call.args.prediction_type = NoneStr
        THEN prediction_type =
                IF getitem(df, dependent_col).numeric
                THEN "regression" ELSE "classification"
        ELSE prediction_type = call.args.prediction_type

C2_Witness ==
    /\ Constructed
    /\ call.args.prediction_type = "regression"
    /\ ~getitem(df, dependent_col).numeric
    /\ prediction_type = "regression"

\* C3: on a classification instance every corr_with_dependent_abs_*
\* accessor returns nan, and on a regression instance every class_prob_*
\* accessor returns nan, whatever was called before.
C3_NotApplicableIsNan ==
    /\ (call.op \in CorrOps /\ prediction_type = "classification") => call.ret = nan
    /\ (call.op \in ClassProbOps /\ prediction_type = "regression") => call.ret = nan

C3_Witness ==
    /\ call.op \in CorrOps
    /\ prediction_type = "classification"
    /\ ~class_probablities.isNone
    /\ call.ret = nan

\* C4: a categorical column of the dataset with k distinct non-missing
\* values is, for k > 2, replaced by exactly k indicator columns whose row
\* sums are 1 (0 in a row where the value is missing) and, for k <= 2, kept
\* with its values mapped into {0, 1}; missing values do not count towards k.
C4_EncodingShape ==
    alive =>
        \A col \in Range(categorical_cols) \cap Range(columns(df)) :
            LET src == getitem(df, col).vals
                k   == Cardinality(dropna_unique(src))
                ind == SelectSeq(df_encoded,
                                 LAMBDA c : has_prefix(c.name, col \o <<"_">>))
            IN  IF k > 2
                THEN /\ col \notin Range(columns(df_encoded))
                     /\ Len(ind) = k
                     /\ \A i \in DOMAIN src :
                            seq_sum([x \in DOMAIN ind |-> ind[x].vals[i]])
                                = IF src[i] = NaN THEN 0 ELSE 1
                ELSE /\ col \in Range(columns(df_encoded))
                     /\ Len(ind) = 0
                     /\ Range(getitem(df_encoded, col).vals) \subseteq {0, 1}

\* C5: the dictionary a symbols_* accessor reduces over has as keys the
\* categorical columns of the instance it is called on and as values their
\* numbers of distinct non-missing values; on an instance without
\* categorical columns the accessor returns nan.
C5_OwnSymbolCounts ==
    call.op \in SymbolOps =>
        /\ DOMAIN symbol_counts_dict = Range(categorical_cols)
        /\ \A c \in DOMAIN symbol_counts_dict :
                symbol_counts_dict[c] =
                    Cardinality(dropna_unique(getitem(df, c).vals))
        /\ categorical_cols = << >> => call.ret = nan

\* C6: on a regression instance a corr_with_dependent_abs_* accessor that
\* finds the mapping cached returns a value: no call that reads the cache
\* raises.
C6_CachedCorrReadable ==
    (call.op \in CorrOps /\ prediction_type = "regression"
        /\ ~corr_with_dependent.isNone) => call.ret.kind # "raise"

\* C7: the class probabilities of a classification instance have one entry
\* per distinct value of the dependent column, each its count over the
\* number of rows, and they sum to 1.
C7_ClassProbabilitiesSumToOne ==
    (alive /\ prediction_type = "classification" /\ ~class_probablities.isNone) =>
        LET m == class_probablities.map
            v == getitem(df, dependent_col).vals
        IN  /\ Len(m) = Cardinality(unique(v))
            /\ \A i \in DOMAIN m :
                    /\ m[i].num = Cardinality({ r \in DOMAIN v : v[r] = m[i].value })
                    /\ m[i].den = n_rows_of(df)
            /\ seq_sum([i \in DOMAIN m |-> m[i].num]) = n_rows_of(df)

C9_IndependentColumns ==
    alive => independent_col = Range(columns(df)) \ {dependent_col}

\* C10: construction leaves the caller's frame as it was passed, n_columns
\* reports its column count, and an accessor call changes none of df,
\* df_encoded, dependent_col, prediction_type, categorical_cols and
\* independent_col.
C10_Frame ==
    /\ [](Constructed => df = call.args.df)
    /\ [](call.op = "n_columns" => call.ret = Value(Len(df), 1))
    /\ [][(alive /\ alive') => UNCHANGED fields]_vars

C10_Witness ==
    /\ call.op = "n_columns"
    /\ Len(df_encoded) > Len(df)
    /\ ~corr_with_dependent.isNone
    /\ symbol_counts_dict # << >>

====
